---- MODULE Spec2Model ----
(***************************************************************************)
(* Astronaut Career Matcher front end: the 7-step questionnaire, the old   *)
(* 6-step questionnaire, the resume upload page and the results page, with *)
(* the browser's sessionStorage and the HTTP calls between them.           *)
(*                                                                         *)
(* JavaScript values are tagged records so that null, undefined, strings   *)
(* and objects can be compared: Null, Undef, Str(s) with s a sequence of   *)
(* characters, Arr(a), Obj(o), and the text JSON.stringify produces.       *)
(***************************************************************************)
EXTENDS Integers, Sequences, FiniteSets, TLC

\* ---------------------------------------------------------------- values
Null == [t |-> "null"]
Undef == [t |-> "undefined"]
Str(s) == [t |-> "str", s |-> s]
Arr(a) == [t |-> "arr", a |-> a]
Obj(o) == [t |-> "obj", o |-> o]

\* JavaScript truthiness of a value (null, undefined and '' are falsy).
Truthy(v) == /\ v.t \notin {"null", "undefined"}
             /\ (v.t = "str" => v.s # <<>>)

\* obj.field of a parsed object; a missing field reads as undefined.
Get(v, f) == IF v.t = "obj" /\ f \in DOMAIN v.o THEN v.o[f] ELSE Undef

\* JSON.stringify drops the fields whose value is undefined; the stored text
\* is kept as the value it denotes.
RECURSIVE DropUndef(_)
DropUndef(v) ==
  IF v.t = "obj"
  THEN LET keep == {f \in DOMAIN v.o : v.o[f] # Undef}
       IN  Obj([f \in keep |-> DropUndef(v.o[f])])
  ELSE IF v.t = "arr"
  THEN Arr([i \in 1..Len(v.a) |-> IF v.a[i] = Undef THEN Null ELSE DropUndef(v.a[i])])
  ELSE v

JSONstringify(v) == [t |-> "json", v |-> DropUndef(v)]
\* JSON.parse(null) is null.
JSONparse(text) == IF text.t = "json" THEN text.v ELSE Null

\* ---------------------------------------------------------------- strings
\* String.prototype.trim(): strip the spaces at both ends.
RECURSIVE TrimLeft(_)
TrimLeft(s) == IF s # <<>> /\ Head(s) = " " THEN TrimLeft(Tail(s)) ELSE s

RECURSIVE TrimRight(_)
TrimRight(s) ==
  IF s # <<>> /\ s[Len(s)] = " " THEN TrimRight(SubSeq(s, 1, Len(s) - 1)) ELSE s

Trim(s) == TrimRight(TrimLeft(s))

\* s.split(','): the pieces between commas (always at least one piece).
RECURSIVE SplitFrom(_, _)
SplitFrom(s, cur) ==
  IF s = <<>> THEN <<cur>>
  ELSE IF Head(s) = "," THEN <<cur>> \o SplitFrom(Tail(s), <<>>)
  ELSE SplitFrom(Tail(s), Append(cur, Head(s)))

Split(s) == SplitFrom(s, <<>>)

RECURSIVE FilterNonEmpty(_)
FilterNonEmpty(q) ==
  IF q = <<>> THEN <<>>
  ELSE IF Head(q) = <<>> THEN FilterNonEmpty(Tail(q))
  ELSE <<Head(q)>> \o FilterNonEmpty(Tail(q))

\* value.split(',').map(item => item.trim()).filter(item => item)
SplitList(s) ==
  LET parts == Split(s)
      trimmed == [i \in 1..Len(parts) |-> Trim(parts[i])]
      kept == FilterNonEmpty(trimmed)
  IN  Arr([i \in 1..Len(kept) |-> Str(kept[i])])

\* ---------------------------------------------------------------- bounds
\* What the user can type into a questionnaire field.
TypedValues == {<<>>, <<" ">>, <<" ", "a", ",">>}

\* What the user types when the whole application is explored: an answer.
FlowValues == {<<" ", "a", ",">>}

\* Most astronauts a similar_astronauts response carries when the whole
\* application is explored.
MaxFlowAstronauts == 1

\* Most astronauts of the response sessionStorage holds when the results page
\* alone is explored.
MaxStoredAstronauts == 3

\* Number of files in one drag-and-drop.
MaxDropFiles == 2

\* Longest timeline array a generate_career_timeline response carries.
MaxTimelineLen == 5

\* Longest interests list of a profile handed to generateUserCareerSuggestions.
MaxInterests == 3

\* ---------------------------------------------------------------- constants
totalSteps == 7
totalStepsOld == 6
top_k == 3
maxFiles == 1
maxSize == 5 * 1024 * 1024
CounterTarget == 570

Fields == <<"firstName", "nationality", "education", "languages", "interests", "hobbies">>
FieldNames == {Fields[i] : i \in 1..6} \cup {"selfie"}

VARIABLES
  page,            \* the page shown: home, questionnaire, questionnaireOld, upload, results
  storage,         \* sessionStorage: key -> Null or Json(value)
  toast,           \* the toast the last step showed, or NoToast
  caught,          \* the endpoint whose failure the last step of a form page caught, or NoCatch
  requested,       \* endpoints the results page has requested since it was mounted
  currentStep, isSubmitting, form, qReq,
  uploadedFile, isProcessing, extractedData, uReq,
  matches, userProfile, isLoading, isAnalyzing, currentSlide, faceSwapImage,
  astronautCount, biographiesGenerated, starsVisible, astronauts,
  analysisTimer, bgTimer, bioPc, tlPc, fsPending,
  sgProfile, sgResult,
  shEnv,           \* the machine setup.sh runs on: commands installed, OPENAI_API_KEY, frontend/
  shPc,            \* the command of setup.sh to run next
  shStatus,        \* <<status>> once setup.sh has run exit, Running before
  shOut,           \* the lines setup.sh has echoed
  shRan,           \* the install commands setup.sh has run, with their outcome
  shCwd            \* the working directory of setup.sh

shared == <<page, storage, requested>>
out == <<toast, caught>>
qVars == <<currentStep, isSubmitting, form, qReq>>
uVars == <<uploadedFile, isProcessing, extractedData, uReq>>
rVars == <<matches, userProfile, isLoading, isAnalyzing, currentSlide, faceSwapImage,
           astronautCount, biographiesGenerated, starsVisible, astronauts,
           analysisTimer, bgTimer, bioPc, tlPc, fsPending>>
sgVars == <<sgProfile, sgResult>>
shVars == <<shEnv, shPc, shStatus, shOut, shRan, shCwd>>
vars == <<shared, out, qVars, uVars, rVars, sgVars, shVars>>

Pages == {"home", "questionnaire", "questionnaireOld", "upload", "results"}

\* ---------------------------------------------------------------- server
\* The astronauts of a similar_astronauts response (the request asks for top_k).
AstronautNames == <<"Astronaut 1", "Astronaut 2", "Astronaut 3">>
AstronautObj(i) == Obj([name |-> Str(<<AstronautNames[i]>>)])

\* Response bodies of similar_astronauts: a MatchResults object holding 0..top_k
\* astronauts, or one without the top_astronauts field.
MatchResult(n) ==
  Obj([top_astronauts |-> Arr([i \in 1..n |-> AstronautObj(i)]), role_scores |-> Str(<<"scores">>)])

Min(a, b) == IF a < b THEN a ELSE b

MatchResponses(max) ==
  {MatchResult(n) : n \in 0..Min(max, top_k)} \cup {Obj([role_scores |-> Str(<<"scores">>)])}

FlowResponses == MatchResponses(MaxFlowAstronauts)

\* Outcomes of a fetch: an ok response, a non-ok status, a thrown exception.
Outcomes == {"ok", "nonok", "throw"}

\* ---------------------------------------------------------------- page state
NoToast == "none"
NoCatch == "none"

\* The step shows no toast and catches no failure.
Quiet == toast' = NoToast /\ caught' = NoCatch

EmptyStorage == [astronautMatches |-> Null, userProfile |-> Null, extractedProfile |-> Null]

EmptyForm == [f \in FieldNames |-> Undef]

\* useState defaults of the questionnaire (both versions).
QDefaults ==
  /\ currentStep' = 1
  /\ isSubmitting' = FALSE
  /\ form' = EmptyForm
  /\ qReq' = Null

\* useState defaults of the upload page.
UDefaults ==
  /\ uploadedFile' = Null
  /\ isProcessing' = FALSE
  /\ extractedData' = Null
  /\ uReq' = [t |-> "none"]

\* useState defaults of the results page.
RDefaults ==
  /\ currentSlide' = 0
  /\ matches' = Null
  /\ userProfile' = Null
  /\ isLoading' = TRUE
  /\ faceSwapImage' = Null
  /\ isAnalyzing' = FALSE
  /\ astronautCount' = 0
  /\ biographiesGenerated' = 0
  /\ starsVisible' = FALSE
  /\ astronauts' = <<>>
  /\ analysisTimer' = FALSE
  /\ bgTimer' = FALSE
  /\ bioPc' = 0
  /\ tlPc' = 0
  /\ fsPending' = 0

Fallback == Str(<<"fallback">>)

\* The face swap effect, run after a render in which userProfile or matches
\* changed: the new <<faceSwapImage, fsPending, requested>>.
FaceSwapEffect(profile, m, image, pending) ==
  IF Truthy(Get(profile, "selfie")) /\ m # Null
  THEN <<image, pending + 1, TRUE>>
  ELSE IF Truthy(profile) /\ ~Truthy(Get(profile, "selfie"))
  THEN <<Fallback, pending, FALSE>>
  ELSE <<image, pending, FALSE>>

ToastLoadError == "Error loading results"

\* The load effect's test with || in place of &&.
StoredEither(stg) == stg.astronautMatches # Null \/ stg.userProfile # Null

\* The load effect's test: storedMatches && storedProfile.
Stored(stg) == stg.astronautMatches # Null /\ stg.userProfile # Null

\* parsedMatches.top_astronauts throws on a null parsedMatches: the effect's
\* catch block runs.
LoadThrows(stg) == Stored(stg) /\ JSONparse(stg.astronautMatches) = Null

\* The results page is mounted with sessionStorage stg: the load effect, the
\* synchronous part of startAnalysisProcess and the face swap effect that
\* follows the render.
ResultsMount(stg) ==
  LET storedMatches == stg.astronautMatches
      storedProfile == stg.userProfile
  IN
  /\ toast' = IF LoadThrows(stg) THEN ToastLoadError ELSE NoToast
  /\ caught' = NoCatch
  /\ IF Stored(stg) /\ ~LoadThrows(stg)
     THEN LET parsedMatches == JSONparse(storedMatches)
              parsedProfile == JSONparse(storedProfile)
              got == Get(parsedMatches, "top_astronauts")
              topAstronauts == IF Truthy(got) THEN got.a ELSE <<>>
              m == Obj([top_astronauts |-> Len(topAstronauts)])
              fx == FaceSwapEffect(parsedProfile, m, Null, 0)
          IN  /\ matches' = m
              /\ userProfile' = parsedProfile
              /\ astronauts' = [i \in 1..Len(topAstronauts) |->
                                  [biography |-> Undef, careerTimeline |-> Undef]]
              /\ isLoading' = FALSE
              /\ isAnalyzing' = TRUE
              /\ starsVisible' = TRUE
              /\ analysisTimer' = TRUE
              /\ bgTimer' = TRUE
              /\ faceSwapImage' = fx[1]
              /\ fsPending' = fx[2]
              /\ requested' = IF fx[3] THEN {"process_face_swap"} ELSE {}
              /\ currentSlide' = 0
              /\ astronautCount' = 0
              /\ biographiesGenerated' = 0
              /\ bioPc' = 0
              /\ tlPc' = 0
     ELSE /\ matches' = Null
          /\ userProfile' = Null
          /\ astronauts' = <<>>
          /\ isLoading' = FALSE
          /\ isAnalyzing' = FALSE
          /\ starsVisible' = FALSE
          /\ analysisTimer' = FALSE
          /\ bgTimer' = FALSE
          /\ faceSwapImage' = Null
          /\ fsPending' = 0
          /\ requested' = {}
          /\ currentSlide' = 0
          /\ astronautCount' = 0
          /\ biographiesGenerated' = 0
          /\ bioPc' = 0
          /\ tlPc' = 0

\* ---------------------------------------------------------------- toasts
ToastQFail == "Failed to process your questionnaire. Please try again."
ToastRequired == "Please fill in the required field before continuing"
ToastUploaded == "Resume uploaded successfully!"
ToastParsed == "Resume processed successfully!"
ToastParseFail == "Failed to process resume. Please try again."
ToastFindFail == "Failed to find matches. Please try again."

\* ---------------------------------------------------------------- questionnaire
\* nextStep's check without the trim.
isValidNoTrim(step, data) ==
  IF step \in 1..6
  THEN LET v == data[Fields[step]]
       IN  v # Undef /\ Truthy(v)
  ELSE TRUE

\* The step's field passes nextStep's check: !!currentData.<field>?.trim()
isValid(step, data) ==
  IF step \in 1..6
  THEN LET v == data[Fields[step]]
       IN  v # Undef /\ Truthy(Str(Trim(v.s)))
  ELSE TRUE

\* nextStep of the 7-step questionnaire: <<new currentStep, toast shown>>.
nextStep(step, data) ==
  IF step < totalSteps
  THEN IF isValid(step, data) THEN <<step + 1, FALSE>> ELSE <<step, TRUE>>
  ELSE <<step, FALSE>>

\* prevStep without its test of the lower bound.
prevStepUnbounded(step) == step - 1

\* prevStep (both versions).
prevStep(step) == IF step > 1 THEN step - 1 ELSE step

\* nextStep of the old 6-step questionnaire.
nextStepOld(step) == IF step < totalStepsOld THEN step + 1 ELSE step

\* renderStep: the screen of the step, or Null from the switch's default.
renderStep(step) ==
  IF step \in 1..6 THEN Str(<<Fields[step]>>)
  ELSE IF step = 7 THEN Str(<<"selfie">>)
  ELSE Null

\* The width of the progress bar in percent, rounded down.
progressWidth(step) == (step * 100) \div totalSteps

\* Step 7 renders SelfieCapture, whose hidden input registers 'selfie' with the
\* value '' until a photo is captured.
MountStep(step, data) ==
  IF step = 7 /\ data.selfie = Undef THEN [data EXCEPT !.selfie = Str(<<>>)] ELSE data

\* react-hook-form's `required` rule on the input mounted at the step.
RequiredOk(step, data) ==
  step \in 1..6 => (data[Fields[step]] # Undef /\ data[Fields[step]].s # <<>>)

\* The profile with the selfie field passed through as it is.
BuildProfileRawSelfie(data) ==
  Obj([name |-> data.firstName,
       nationality |-> data.nationality,
       education |-> Arr(<<Obj([institution |-> data.education])>>),
       occupations |-> SplitList(data.interests.s),
       interests |-> SplitList(data.hobbies.s),
       languages |-> SplitList(data.languages.s),
       selfie |-> data.selfie])

\* The profile onSubmit builds from the form data.
BuildProfile(data) ==
  Obj([name |-> data.firstName,
       nationality |-> data.nationality,
       education |-> Arr(<<Obj([institution |-> data.education])>>),
       occupations |-> SplitList(data.interests.s),
       interests |-> SplitList(data.hobbies.s),
       languages |-> SplitList(data.languages.s),
       selfie |-> IF Truthy(data.selfie) THEN data.selfie ELSE Null])

\* The old questionnaire's profile: its form fields are not tracked, a field the
\* user left out is undefined.
OldProfile ==
  Obj([name |-> Str(<<"a">>), age |-> Undef, nationality |-> Str(<<"a">>),
       interests |-> Arr(<<>>)])

\* The user edits the text input of the current step (steps 1, 3..6).
TypeField(v) ==
  /\ page = "questionnaire"
  /\ currentStep \in 1..6 \ {2}
  /\ form' = [form EXCEPT ![Fields[currentStep]] = Str(v)]
  /\ Quiet
  /\ UNCHANGED <<shared, currentStep, isSubmitting, qReq, uVars, rVars, sgVars, shVars>>

\* The options of the nationality select of step 2: '' and a nationality.
nationalityOptions == {<<>>, <<"a">>}

\* The user picks an option of the select of step 2.
SelectNationality(v) ==
  /\ page = "questionnaire"
  /\ currentStep = 2
  /\ form' = [form EXCEPT !.nationality = Str(v)]
  /\ Quiet
  /\ UNCHANGED <<shared, currentStep, isSubmitting, qReq, uVars, rVars, sgVars, shVars>>

\* SelfieCapture.capturePhoto at step 7.
CaptureSelfie ==
  /\ page = "questionnaire"
  /\ currentStep = 7
  /\ form.selfie = Str(<<>>)
  /\ form' = [form EXCEPT !.selfie = Str(<<"img">>)]
  /\ Quiet
  /\ UNCHANGED <<shared, currentStep, isSubmitting, qReq, uVars, rVars, sgVars, shVars>>

\* SelfieCapture.retakePhoto at step 7.
RetakeSelfie ==
  /\ page = "questionnaire"
  /\ currentStep = 7
  /\ form.selfie = Str(<<"img">>)
  /\ form' = [form EXCEPT !.selfie = Str(<<>>)]
  /\ Quiet
  /\ UNCHANGED <<shared, currentStep, isSubmitting, qReq, uVars, rVars, sgVars, shVars>>

DoNextStep ==
  LET r == nextStep(currentStep, form)
  IN  /\ currentStep' = r[1]
      /\ form' = MountStep(r[1], form)
      /\ toast' = IF r[2] THEN ToastRequired ELSE NoToast
      /\ caught' = NoCatch
      /\ UNCHANGED <<shared, isSubmitting, qReq, uVars, rVars, sgVars, shVars>>

\* The Continue button, rendered while currentStep < totalSteps - 1.
Continue ==
  /\ page = "questionnaire"
  /\ currentStep < totalSteps - 1
  /\ DoNextStep

\* handleKeyPress for the Enter key in the input of steps 1..6.
EnterKey ==
  /\ page = "questionnaire"
  /\ currentStep \in 1..6
  /\ currentStep < totalSteps
  /\ DoNextStep

\* The Previous button (disabled at step 1).
Previous ==
  /\ page = "questionnaire"
  /\ currentStep # 1
  /\ currentStep' = prevStep(currentStep)
  /\ form' = MountStep(currentStep', form)
  /\ Quiet
  /\ UNCHANGED <<shared, isSubmitting, qReq, uVars, rVars, sgVars, shVars>>

\* 'Skip for now' under the selfie capture of step 7.
SkipSelfie ==
  /\ page = "questionnaire"
  /\ currentStep = 7
  /\ currentStep' = currentStep + 1
  /\ Quiet
  /\ UNCHANGED <<shared, isSubmitting, form, qReq, uVars, rVars, sgVars, shVars>>

\* onSubmit without its early return before the last two steps, sending the
\* fields filled in so far.
FormSubmitAnyStep ==
  /\ page = "questionnaire"
  /\ ~isSubmitting
  /\ RequiredOk(currentStep, form)
  /\ isSubmitting' = TRUE
  /\ qReq' = Obj([name |-> form.firstName])
  /\ Quiet
  /\ UNCHANGED <<shared, currentStep, form, uVars, rVars, sgVars, shVars>>

\* The form's submit event, handleSubmit(onSubmit): raised by the submit button
\* (rendered from step totalSteps - 1 on, disabled while isSubmitting) or by the
\* browser's implicit submission of the single text input of an earlier step.
\* onSubmit runs up to its fetch.
FormSubmit ==
  /\ page = "questionnaire"
  /\ currentStep >= totalSteps - 1 => ~isSubmitting
  /\ RequiredOk(currentStep, form)
  /\ IF currentStep < totalSteps - 1
     THEN UNCHANGED <<isSubmitting, qReq>>
     ELSE /\ isSubmitting' = TRUE
          /\ qReq' = BuildProfile(form)
  /\ Quiet
  /\ UNCHANGED <<shared, currentStep, form, uVars, rVars, sgVars, shVars>>

\* onSubmit without its second setItem.
SubmitResponseNoProfile(outcome, result) ==
  /\ page \in {"questionnaire", "questionnaireOld"}
  /\ qReq # Null
  /\ IF outcome = "ok"
     THEN /\ storage' = [storage EXCEPT !.astronautMatches = JSONstringify(result)]
          /\ page' = "results"
          /\ ResultsMount(storage')
          /\ QDefaults
     ELSE /\ toast' = ToastQFail
          /\ caught' = "similar_astronauts"
          /\ isSubmitting' = FALSE
          /\ qReq' = Null
          /\ UNCHANGED <<shared, currentStep, form, rVars>>
  /\ UNCHANGED <<uVars, sgVars, shVars>>

\* The response of similar_astronauts reaches onSubmit (either version).
SubmitResponse(outcome, result) ==
  /\ page \in {"questionnaire", "questionnaireOld"}
  /\ qReq # Null
  /\ IF outcome = "ok"
     THEN /\ storage' = [storage EXCEPT !.astronautMatches = JSONstringify(result),
                                        !.userProfile = JSONstringify(qReq)]
          /\ page' = "results"
          /\ ResultsMount(storage')
          /\ QDefaults
     ELSE /\ toast' = ToastQFail
          /\ caught' = "similar_astronauts"
          /\ isSubmitting' = FALSE
          /\ qReq' = Null
          /\ UNCHANGED <<shared, currentStep, form, rVars>>
  /\ UNCHANGED <<uVars, sgVars, shVars>>

\* ---------------------------------------------------------------- old questionnaire
OldNext ==
  /\ page = "questionnaireOld"
  /\ currentStep < totalStepsOld
  /\ currentStep' = nextStepOld(currentStep)
  /\ Quiet
  /\ UNCHANGED <<shared, isSubmitting, form, qReq, uVars, rVars, sgVars, shVars>>

OldPrevious ==
  /\ page = "questionnaireOld"
  /\ currentStep # 1
  /\ currentStep' = prevStep(currentStep)
  /\ Quiet
  /\ UNCHANGED <<shared, isSubmitting, form, qReq, uVars, rVars, sgVars, shVars>>

\* The submit button of the last step: onSubmit up to its fetch.
OldSubmit ==
  /\ page = "questionnaireOld"
  /\ currentStep = totalStepsOld
  /\ ~isSubmitting
  /\ isSubmitting' = TRUE
  /\ qReq' = OldProfile
  /\ Quiet
  /\ UNCHANGED <<shared, currentStep, form, uVars, rVars, sgVars, shVars>>

\* ---------------------------------------------------------------- upload page
\* useDropzone's accept map: MIME type -> file extensions.
accept ==
  [type \in {"application/pdf", "application/msword",
             "application/vnd.openxmlformats-officedocument.wordprocessingml.document",
             "text/plain"} |->
     CASE type = "application/pdf" -> {".pdf"}
       [] type = "application/msword" -> {".doc"}
       [] type = "text/plain" -> {".txt"}
       [] OTHER -> {".docx"}]

\* The files a user may drop: matching and non-matching types, a file whose
\* name carries an accepted extension but whose MIME type is another, sizes
\* around maxSize.
FileKinds ==
  {<<"application/pdf", ".pdf">>, <<"application/msword", ".doc">>,
   <<"application/vnd.openxmlformats-officedocument.wordprocessingml.document", ".docx">>,
   <<"text/plain", ".txt">>, <<"image/png", ".png">>, <<"image/png", ".pdf">>}
FileSizes == {1, maxSize, maxSize + 1}
Files == {[t |-> "file", type |-> k[1], ext |-> k[2], size |-> z] : k \in FileKinds, z \in FileSizes}

\* All sequences over S of length 1..n.
RECURSIVE SeqsUpTo(_, _)
SeqsUpTo(S, n) ==
  IF n = 0 THEN {<<>>}
  ELSE LET shorter == SeqsUpTo(S, n - 1)
       IN  shorter \cup {Append(q, x) : q \in {r \in shorter : Len(r) = n - 1}, x \in S}

Drops == SeqsUpTo(Files, MaxDropFiles) \ {<<>>}

\* A dropzone without maxSize.
fileAcceptedAnySize(file) ==
  \/ file.type \in DOMAIN accept
  \/ \E type \in DOMAIN accept : file.ext \in accept[type]

\* The dropzone takes a file whose MIME type or extension is in accept and
\* whose size is at most maxSize.
fileAccepted(file) ==
  /\ \/ file.type \in DOMAIN accept
     \/ \E type \in DOMAIN accept : file.ext \in accept[type]
  /\ file.size <= maxSize

RECURSIVE SelectAccepted(_)
SelectAccepted(files) ==
  IF files = <<>> THEN <<>>
  ELSE IF fileAccepted(Head(files)) THEN <<Head(files)>> \o SelectAccepted(Tail(files))
  ELSE SelectAccepted(Tail(files))

\* The acceptedFiles the dropzone hands to onDrop: more than maxFiles
\* acceptable files are all rejected.
acceptedFiles(files) ==
  LET ok == SelectAccepted(files)
  IN  IF Len(ok) > maxFiles THEN <<>> ELSE ok

\* Bodies of an ok parse_resume response.
ExtractedProfiles ==
  {Obj([name |-> Str(<<"a">>), interests |-> Arr(<<Str(<<"a">>)>>)])}

NoReq == [t |-> "none"]

\* Files are dropped on the dropzone (rendered while no file is uploaded): onDrop.
Drop(files) ==
  /\ page = "upload"
  /\ uploadedFile = Null
  /\ LET acc == acceptedFiles(files)
     IN  IF acc # <<>>
         THEN /\ uploadedFile' = acc[1]
              /\ toast' = ToastUploaded
         ELSE /\ toast' = NoToast
              /\ UNCHANGED uploadedFile
  /\ caught' = NoCatch
  /\ UNCHANGED <<shared, isProcessing, extractedData, uReq, qVars, rVars, sgVars, shVars>>

removeFile ==
  /\ page = "upload"
  /\ uploadedFile # Null
  /\ uploadedFile' = Null
  /\ extractedData' = Null
  /\ Quiet
  /\ UNCHANGED <<shared, isProcessing, uReq, qVars, rVars, sgVars, shVars>>

\* 'Process Resume' (disabled while isProcessing): processResume up to its fetch.
processResume ==
  /\ page = "upload"
  /\ uploadedFile # Null
  /\ ~isProcessing
  /\ isProcessing' = TRUE
  /\ uReq' = [t |-> "parse"]
  /\ Quiet
  /\ UNCHANGED <<shared, uploadedFile, extractedData, qVars, rVars, sgVars, shVars>>

\* processResume with a catch block that shows no toast.
ParseResponseSilent(outcome, result) ==
  /\ page = "upload"
  /\ uReq.t = "parse"
  /\ IF outcome = "ok"
     THEN /\ extractedData' = result
          /\ storage' = [storage EXCEPT !.extractedProfile = JSONstringify(result)]
          /\ toast' = ToastParsed
          /\ caught' = NoCatch
     ELSE /\ toast' = NoToast
          /\ caught' = "parse_resume"
          /\ UNCHANGED <<extractedData, storage>>
  /\ isProcessing' = FALSE
  /\ uReq' = NoReq
  /\ UNCHANGED <<page, requested, uploadedFile, qVars, rVars, sgVars, shVars>>

\* The response of parse_resume reaches processResume.
ParseResponse(outcome, result) ==
  /\ page = "upload"
  /\ uReq.t = "parse"
  /\ IF outcome = "ok"
     THEN /\ extractedData' = result
          /\ storage' = [storage EXCEPT !.extractedProfile = JSONstringify(result)]
          /\ toast' = ToastParsed
          /\ caught' = NoCatch
     ELSE /\ toast' = ToastParseFail
          /\ caught' = "parse_resume"
          /\ UNCHANGED <<extractedData, storage>>
  /\ isProcessing' = FALSE
  /\ uReq' = NoReq
  /\ UNCHANGED <<page, requested, uploadedFile, qVars, rVars, sgVars, shVars>>

\* 'Find My Astronaut Matches' (rendered once extractedData is set, disabled
\* while isProcessing): findMatches up to its fetch.
findMatches ==
  /\ page = "upload"
  /\ extractedData # Null
  /\ ~isProcessing
  /\ isProcessing' = TRUE
  /\ uReq' = [t |-> "find", profile |-> extractedData]
  /\ Quiet
  /\ UNCHANGED <<shared, uploadedFile, extractedData, qVars, rVars, sgVars, shVars>>

\* findMatches without its finally block.
FindResponseStaysBusy(outcome, result) ==
  /\ page = "upload"
  /\ uReq.t = "find"
  /\ IF outcome = "ok"
     THEN /\ storage' = [storage EXCEPT !.astronautMatches = JSONstringify(result),
                                        !.userProfile = JSONstringify(uReq.profile)]
          /\ page' = "results"
          /\ ResultsMount(storage')
          /\ UDefaults
     ELSE /\ toast' = ToastFindFail
          /\ caught' = "similar_astronauts"
          /\ isProcessing' = TRUE
          /\ uReq' = NoReq
          /\ UNCHANGED <<shared, uploadedFile, extractedData, rVars>>
  /\ UNCHANGED <<qVars, sgVars, shVars>>

\* The response of similar_astronauts reaches findMatches.
FindResponse(outcome, result) ==
  /\ page = "upload"
  /\ uReq.t = "find"
  /\ IF outcome = "ok"
     THEN /\ storage' = [storage EXCEPT !.astronautMatches = JSONstringify(result),
                                        !.userProfile = JSONstringify(uReq.profile)]
          /\ page' = "results"
          /\ ResultsMount(storage')
          /\ UDefaults
     ELSE /\ toast' = ToastFindFail
          /\ caught' = "similar_astronauts"
          /\ isProcessing' = FALSE
          /\ uReq' = NoReq
          /\ UNCHANGED <<shared, uploadedFile, extractedData, rVars>>
  /\ UNCHANGED <<qVars, sgVars, shVars>>

\* ---------------------------------------------------------------- results page
\* The analysis counter is kept as 0, some value in between, or its target.
CounterMid == CounterTarget \div 2

\* The page renders its slides (not 'Loading...', not 'No Results Found').
MainRender == page = "results" /\ ~isLoading /\ matches # Null /\ userProfile # Null

\* The render guard that shows 'No Results Found'.
NoResultsFound == page = "results" /\ ~isLoading /\ (matches = Null \/ userProfile = Null)

slides == <<"Slide1", "Slide2", "Slide3">>

\* Slide1 renders matches.top_astronauts.slice(0, slide1Limit), one card each.
slide1Limit == 3
Slide1Cards == IF matches = Null THEN 0 ELSE Min(matches.o.top_astronauts, slide1Limit)

\* The analysis screen announces 'Found 2 matches!' once the counter shows its target.
announcedMatches == 2

\* userProfile as startAnalysisProcess's background task sees it: the value of
\* the render whose effect called it, the first one, before setUserProfile.
StaleUserProfile == Null

\* Bodies of an ok generate_career_timeline response: null, no timeline field,
\* a timeline that is no array, and arrays of truthy and empty entries.
TimelineArrays ==
  {<<>>, <<Str(<<"t">>), Str(<<>>), Str(<<"t">>)>>, [i \in 1..MaxTimelineLen |-> Str(<<"t">>)]}
TimelineBodies ==
  {Null, Obj([note |-> Str(<<"t">>)]), Obj([timeline |-> Str(<<"t">>)])}
  \cup {Obj([timeline |-> Arr(q)]) : q \in TimelineArrays}

fallbacks ==
  <<Str(<<"Selected for astronaut training program">>),
    Str(<<"Completed intensive space mission preparation">>),
    Str(<<"First space mission launch">>),
    Str(<<"Advanced to senior astronaut role">>)>>

catchTimeline ==
  <<Str(<<"Astronaut training">>), Str(<<"First mission">>),
    Str(<<"Advanced missions">>), Str(<<"Senior role">>)>>

RECURSIVE FilterBoolean(_)
FilterBoolean(q) ==
  IF q = <<>> THEN <<>>
  ELSE IF Truthy(Head(q)) THEN <<Head(q)>> \o FilterBoolean(Tail(q))
  ELSE FilterBoolean(Tail(q))

\* No slice.
SliceNothing(q) == q

\* baseTimeline.slice(0, 4)
Slice4(q) == SubSeq(q, 1, IF Len(q) < 4 THEN Len(q) ELSE 4)

\* No padding of a short timeline.
PadNothing(q) == q

\* while (normalizedTimeline.length < 4) push(fallbacks[normalizedTimeline.length])
RECURSIVE PadFallbacks(_)
PadFallbacks(q) == IF Len(q) < 4 THEN PadFallbacks(Append(q, fallbacks[Len(q) + 1])) ELSE q

\* The careerTimeline generateCareerTimelines gives an astronaut for one fetch
\* outcome and response body.
careerTimelineOf(outcome, data) ==
  IF outcome = "throw" \/ (outcome = "ok" /\ data = Null) THEN Arr(catchTimeline)
  ELSE IF outcome = "nonok" THEN Arr(fallbacks)
  ELSE LET timeline == Get(data, "timeline")
           baseTimeline == IF timeline.t = "arr" THEN FilterBoolean(timeline.a) ELSE <<>>
       IN  Arr(PadFallbacks(Slice4(baseTimeline)))

\* The biography generateAstronautBiographies gives an astronaut.
biographyOf(outcome) ==
  CASE outcome = "ok" -> Str(<<"data.biography">>)
    [] outcome = "nonok" -> Str(<<"A distinguished astronaut">>)
    [] OTHER -> Str(<<"An accomplished astronaut with extensive space experience.">>)

\* The 60 ms counter interval of startAnalysisProcess, until the target is
\* reached or the 8 s timer clears it.
CounterTick ==
  /\ page = "results"
  /\ analysisTimer
  /\ astronautCount < CounterTarget
  /\ astronautCount' \in {CounterMid, CounterTarget}
  /\ Quiet
  /\ UNCHANGED <<shared, qVars, uVars, sgVars, shVars, matches, userProfile, isLoading, isAnalyzing,
                 currentSlide, faceSwapImage, biographiesGenerated, starsVisible, astronauts,
                 analysisTimer, bgTimer, bioPc, tlPc, fsPending>>

\* The 8 s timer without its setIsAnalyzing(false).
AnalysisTimerKeepsAnalyzing ==
  /\ page = "results"
  /\ analysisTimer
  /\ ~bgTimer
  /\ analysisTimer' = FALSE
  /\ astronautCount' = CounterTarget
  /\ currentSlide' = 0
  /\ Quiet
  /\ UNCHANGED <<shared, qVars, uVars, sgVars, shVars, matches, userProfile, isLoading, isAnalyzing,
                 faceSwapImage, biographiesGenerated, starsVisible, astronauts,
                 bgTimer, bioPc, tlPc, fsPending>>

\* The 8 s timer of startAnalysisProcess (set before the 100 ms one, it fires
\* after it).
AnalysisTimerFires ==
  /\ page = "results"
  /\ analysisTimer
  /\ ~bgTimer
  /\ analysisTimer' = FALSE
  /\ astronautCount' = CounterTarget
  /\ isAnalyzing' = FALSE
  /\ currentSlide' = 0
  /\ Quiet
  /\ UNCHANGED <<shared, qVars, uVars, sgVars, shVars, matches, userProfile, isLoading,
                 faceSwapImage, biographiesGenerated, starsVisible, astronauts,
                 bgTimer, bioPc, tlPc, fsPending>>

\* The end of the background task, once generateCareerTimelines has returned:
\* setMatches with a fresh object, the face swap effect its render triggers,
\* and the task's own processFaceSwap, whose result is dropped.
AfterTimelines ==
  LET fx == FaceSwapEffect(userProfile, matches, faceSwapImage, fsPending)
      own == Truthy(Get(StaleUserProfile, "selfie"))
  IN  /\ matches' = matches
      /\ faceSwapImage' = fx[1]
      /\ fsPending' = fx[2]
      /\ requested' = requested \cup (IF fx[3] \/ own THEN {"process_face_swap"} ELSE {})

\* The 100 ms timer of startAnalysisProcess: the biography and the timeline
\* loops both run up to their first fetch.
BgTimerFires ==
  /\ page = "results"
  /\ bgTimer
  /\ bgTimer' = FALSE
  /\ bioPc' = 1
  /\ tlPc' = 1
  /\ IF astronauts = <<>>
     THEN AfterTimelines
     ELSE /\ requested' = requested \cup {"generate_biography", "generate_career_timeline"}
          /\ UNCHANGED <<matches, faceSwapImage, fsPending>>
  /\ Quiet
  /\ UNCHANGED <<page, storage, qVars, uVars, sgVars, shVars, userProfile, isLoading,
                 isAnalyzing, currentSlide, astronautCount, biographiesGenerated, starsVisible,
                 astronauts, analysisTimer>>

\* A generate_biography response reaches generateAstronautBiographies.
BioResponse(outcome) ==
  /\ page = "results"
  /\ bioPc \in 1..Len(astronauts)
  /\ astronauts' = [astronauts EXCEPT ![bioPc].biography = biographyOf(outcome)]
  /\ biographiesGenerated' = bioPc
  /\ bioPc' = bioPc + 1
  /\ Quiet
  /\ UNCHANGED <<page, storage, requested, qVars, uVars, sgVars, shVars, matches, userProfile,
                 isLoading, isAnalyzing, currentSlide, faceSwapImage, astronautCount,
                 starsVisible, analysisTimer, bgTimer, tlPc, fsPending>>

\* A generate_career_timeline response reaches generateCareerTimelines; after
\* the last astronaut the background task goes on.
TimelineResponse(outcome, data) ==
  /\ page = "results"
  /\ tlPc \in 1..Len(astronauts)
  /\ astronauts' = [astronauts EXCEPT ![tlPc].careerTimeline = careerTimelineOf(outcome, data)]
  /\ tlPc' = tlPc + 1
  /\ IF tlPc = Len(astronauts)
     THEN AfterTimelines
     ELSE UNCHANGED <<matches, faceSwapImage, fsPending, requested>>
  /\ Quiet
  /\ UNCHANGED <<page, storage, qVars, uVars, sgVars, shVars, userProfile, isLoading,
                 isAnalyzing, currentSlide, astronautCount, biographiesGenerated,
                 starsVisible, analysisTimer, bgTimer, bioPc>>

\* Outcomes of process_face_swap: ok with an image, ok without one, non-ok, thrown.
FaceSwapOutcomes == {"ok", "noimage", "nonok", "throw"}

\* processFaceSwap's result: the image, or null.
processFaceSwap(outcome) == IF outcome = "ok" THEN Str(<<"astronaut_image">>) ELSE Null

\* A process_face_swap response reaches a processFaceSwap the effect started.
FaceSwapResponse(outcome) ==
  /\ page = "results"
  /\ fsPending > 0
  /\ fsPending' = fsPending - 1
  /\ LET result == processFaceSwap(outcome)
     IN  faceSwapImage' = IF Truthy(result) THEN result ELSE Fallback
  /\ Quiet
  /\ UNCHANGED <<page, storage, requested, qVars, uVars, sgVars, shVars, matches, userProfile,
                 isLoading, isAnalyzing, currentSlide, astronautCount, biographiesGenerated,
                 starsVisible, astronauts, analysisTimer, bgTimer, bioPc, tlPc>>

SlideUnchanged ==
  /\ Quiet
  /\ UNCHANGED <<shared, qVars, uVars, sgVars, shVars, matches, userProfile, isLoading, isAnalyzing,
              faceSwapImage, astronautCount, biographiesGenerated, starsVisible, astronauts,
              analysisTimer, bgTimer, bioPc, tlPc, fsPending>>

\* The Next button (under the analysis overlay while isAnalyzing).
nextSlide ==
  /\ MainRender /\ ~isAnalyzing
  /\ currentSlide < Len(slides) - 1
  /\ currentSlide' = currentSlide + 1
  /\ SlideUnchanged

prevSlide ==
  /\ MainRender /\ ~isAnalyzing
  /\ currentSlide > 0
  /\ currentSlide' = currentSlide - 1
  /\ SlideUnchanged

\* The 'Start Over' button of the last slide.
StartOver ==
  /\ MainRender /\ ~isAnalyzing
  /\ currentSlide >= Len(slides) - 1
  /\ currentSlide' = 0
  /\ SlideUnchanged

\* ---------------------------------------------------------------- navigation
\* The user opens a page (a link, the address bar, a reload); a page with a
\* similar_astronauts or parse_resume request in flight is left only by the
\* request's handler.
Navigate(p) ==
  /\ qReq = Null
  /\ uReq = NoReq
  /\ page' = p
  /\ QDefaults
  /\ UDefaults
  /\ IF p = "results" THEN ResultsMount(storage) ELSE RDefaults /\ requested' = {} /\ Quiet
  /\ UNCHANGED <<storage, sgVars, shVars>>

\* 'Clear Cache & Go to Questionnaire' (under the analysis overlay while isAnalyzing).
ClearCache ==
  /\ MainRender /\ ~isAnalyzing
  /\ storage' = EmptyStorage
  /\ page' = "questionnaire"
  /\ Quiet
  /\ requested' = {}
  /\ QDefaults
  /\ UDefaults
  /\ RDefaults
  /\ UNCHANGED <<sgVars, shVars>>

\* ---------------------------------------------------------------- career suggestions
\* interests.includes(a) || interests.includes(b)
includes(list, word) == \E i \in 1..Len(list) : list[i] = Str(<<word>>)

\* generateUserCareerSuggestions(userProfile)
generateUserCareerSuggestions(profile) ==
  LET got == Get(profile, "interests")
      interests == IF Truthy(got) THEN got.a ELSE <<>>
      eng == IF includes(interests, "Engineering") \/ includes(interests, "engineering")
             THEN <<"Join engineering professional organizations",
                    "Complete aerospace engineering projects">>
             ELSE <<>>
      med == IF includes(interests, "Medicine") \/ includes(interests, "medicine")
             THEN <<"Volunteer in emergency medical services",
                    "Study human physiology and space health">>
             ELSE <<>>
      phy == IF includes(interests, "Physics") \/ includes(interests, "physics")
             THEN <<"Participate in physics research projects",
                    "Attend space science conferences">>
             ELSE <<>>
      suggestions == eng \o med \o phy \o
                     <<"Join local astronomy or space clubs",
                       "Volunteer for STEM education programs",
                       "Start regular physical fitness routine",
                       "Learn about space industry careers">>
      finalSuggestions == Slice4(suggestions)
      pad == <<"Build technical skills in STEM fields",
               "Develop leadership and teamwork abilities",
               "Gain experience in high-pressure environments",
               "Pursue advanced education opportunities">>
  IN  finalSuggestions \o [i \in 1..(4 - Len(finalSuggestions)) |->
                             pad[((Len(finalSuggestions) + i - 1) % 4) + 1]]

InterestWords ==
  {"Engineering", "engineering", "Medicine", "medicine", "Physics", "physics", "Art"}

\* Profiles with an interests list of up to MaxInterests words, or with none.
SuggestProfiles ==
  {Obj([name |-> Str(<<"a">>), interests |-> Arr([i \in 1..Len(q) |-> Str(<<q[i]>>)])]) :
      q \in SeqsUpTo(InterestWords, MaxInterests)}
  \cup {Obj([name |-> Str(<<"a">>)])}

\* Slide 3 renders generateUserCareerSuggestions(userProfile).
Suggest ==
  /\ sgResult = Undef
  /\ sgProfile # Null
  /\ sgResult' = Arr(generateUserCareerSuggestions(sgProfile))
  /\ Quiet
  /\ UNCHANGED <<shared, qVars, uVars, rVars, sgProfile, shVars>>

\* ---------------------------------------------------------------- setup.sh
\* No exit command has run yet.
Running == <<>>

Prerequisites == {"python3", "node", "npm"}

\* The machines setup.sh may run on: any of the three commands installed,
\* OPENAI_API_KEY unset, empty or set, the frontend directory there or not.
ShEnvs ==
  [installed : SUBSET Prerequisites, key : {Undef, Str(<<>>), Str(<<"k">>)}, frontend : BOOLEAN]

MsgStart == "Starting Astronaut Career Matcher..."
MsgNoPython == "Python 3 is not installed. Please install Python 3.8+ first."
MsgNoNode == "Node.js is not installed. Please install Node.js 18+ first."
MsgNoNpm == "npm is not installed. Please install npm first."
MsgPassed == "Prerequisites check passed!"
MsgNoKey == "Warning: OPENAI_API_KEY environment variable is not set."
MsgComplete == "Setup complete! Starting servers..."

\* setup.sh is not run.
ShNotRun ==
  /\ shEnv = Null
  /\ shPc = "none"
  /\ shStatus = Running
  /\ shOut = <<>>
  /\ shRan = <<>>
  /\ shCwd = "project"

\* if ! command -v <cmd>; then echo <msg>; exit 1; fi
CheckCommand(cmd, msg, before, passed, next) ==
  /\ shPc = cmd
  /\ IF cmd \in shEnv.installed
     THEN /\ shOut' = shOut \o before \o passed
          /\ shPc' = next
          /\ UNCHANGED shStatus
     ELSE /\ shOut' = shOut \o before \o <<msg>>
          /\ shPc' = "exit"
          /\ shStatus' = <<1>>
  /\ UNCHANGED <<shEnv, shRan, shCwd>>
  /\ UNCHANGED <<shared, out, qVars, uVars, rVars, sgVars>>

CheckPython == CheckCommand("python3", MsgNoPython, <<MsgStart>>, <<>>, "node")
CheckNode == CheckCommand("node", MsgNoNode, <<>>, <<>>, "npm")
CheckNpm == CheckCommand("npm", MsgNoNpm, <<>>, <<MsgPassed>>, "pip")

\* pip install -r requirements.txt: the script goes on whatever its outcome.
PipInstall(outcome) ==
  /\ shPc = "pip"
  /\ shRan' = Append(shRan, <<"pip install -r requirements.txt", outcome>>)
  /\ shPc' = "npm install"
  /\ UNCHANGED <<shEnv, shStatus, shOut, shCwd>>
  /\ UNCHANGED <<shared, out, qVars, uVars, rVars, sgVars>>

\* cd frontend; npm install; cd ..: without a frontend directory the first cd
\* fails, npm install runs where the script is and cd .. leaves the project.
NpmInstall(outcome) ==
  /\ shPc = "npm install"
  /\ shRan' = Append(shRan, <<"npm install", outcome>>)
  /\ shCwd' = IF shEnv.frontend THEN "project" ELSE "parent"
  /\ shPc' = "key"
  /\ UNCHANGED <<shEnv, shStatus, shOut>>
  /\ UNCHANGED <<shared, out, qVars, uVars, rVars, sgVars>>

\* A check of the key written like the checks of the commands: exit 1 without it.
CheckKeyRequired ==
  /\ shPc = "key"
  /\ IF Truthy(shEnv.key)
     THEN /\ shPc' = "complete"
          /\ UNCHANGED <<shOut, shStatus>>
     ELSE /\ shOut' = Append(shOut, MsgNoKey)
          /\ shPc' = "exit"
          /\ shStatus' = <<1>>
  /\ UNCHANGED <<shEnv, shRan, shCwd>>
  /\ UNCHANGED <<shared, out, qVars, uVars, rVars, sgVars>>

\* if [ -z "$OPENAI_API_KEY" ]; then echo the warning; fi
CheckKey ==
  /\ shPc = "key"
  /\ shOut' = IF Truthy(shEnv.key) THEN shOut ELSE Append(shOut, MsgNoKey)
  /\ shPc' = "complete"
  /\ UNCHANGED <<shEnv, shStatus, shRan, shCwd>>
  /\ UNCHANGED <<shared, out, qVars, uVars, rVars, sgVars>>

\* The closing echo lines, none of which exits.
Complete ==
  /\ shPc = "complete"
  /\ shOut' = Append(shOut, MsgComplete)
  /\ shPc' = "done"
  /\ UNCHANGED <<shEnv, shStatus, shRan, shCwd>>
  /\ UNCHANGED <<shared, out, qVars, uVars, rVars, sgVars>>

InstallOutcomes == {"ok", "fail"}

\* ---------------------------------------------------------------- specifications
\* The application is opened on its home page: every component state at its
\* useState default.
DefaultsInit ==
  /\ page = "home"
  /\ toast = NoToast
  /\ caught = NoCatch
  /\ requested = {}
  /\ currentStep = 1
  /\ isSubmitting = FALSE
  /\ form = EmptyForm
  /\ qReq = Null
  /\ uploadedFile = Null
  /\ isProcessing = FALSE
  /\ extractedData = Null
  /\ uReq = NoReq
  /\ currentSlide = 0
  /\ matches = Null
  /\ userProfile = Null
  /\ isLoading = TRUE
  /\ faceSwapImage = Null
  /\ isAnalyzing = FALSE
  /\ astronautCount = 0
  /\ biographiesGenerated = 0
  /\ starsVisible = FALSE
  /\ astronauts = <<>>
  /\ analysisTimer = FALSE
  /\ bgTimer = FALSE
  /\ bioPc = 0
  /\ tlPc = 0
  /\ fsPending = 0

PagesInit ==
  /\ DefaultsInit
  /\ storage = EmptyStorage

Init ==
  /\ PagesInit
  /\ sgProfile = Null
  /\ sgResult = Undef
  /\ ShNotRun

\* Steps of the 7-step questionnaire, the user typing a value of V.
QuestionnaireNext(V) ==
  \/ \E v \in V : TypeField(v)
  \/ \E v \in nationalityOptions : SelectNationality(v)
  \/ CaptureSelfie
  \/ RetakeSelfie
  \/ Continue
  \/ EnterKey
  \/ Previous
  \/ SkipSelfie
  \/ FormSubmit
  \/ \E outcome \in Outcomes, result \in FlowResponses : SubmitResponse(outcome, result)

OldQuestionnaireNext ==
  \/ OldNext
  \/ OldPrevious
  \/ OldSubmit

UploadNext ==
  \/ \E files \in Drops : Drop(files)
  \/ removeFile
  \/ processResume
  \/ \E outcome \in Outcomes, result \in ExtractedProfiles : ParseResponse(outcome, result)
  \/ findMatches
  \/ \E outcome \in Outcomes, result \in FlowResponses : FindResponse(outcome, result)

ResultsNext ==
  \/ CounterTick
  \/ AnalysisTimerFires
  \/ BgTimerFires
  \/ \E outcome \in Outcomes : BioResponse(outcome)
  \/ \E data \in TimelineBodies : TimelineResponse("ok", data)
  \/ \E outcome \in Outcomes \ {"ok"} : TimelineResponse(outcome, Null)
  \/ \E outcome \in FaceSwapOutcomes : FaceSwapResponse(outcome)
  \/ nextSlide
  \/ prevSlide
  \/ StartOver
  \/ ClearCache

\* The whole application.
Next ==
  \/ QuestionnaireNext(FlowValues)
  \/ OldQuestionnaireNext
  \/ UploadNext
  \/ ResultsNext
  \/ \E p \in Pages : Navigate(p)

Spec == Init /\ [][Next]_vars

\* The 7-step questionnaire in depth, with every typed value.
OpenQuestionnaire == page = "home" /\ Navigate("questionnaire")

NextQ ==
  \/ QuestionnaireNext(TypedValues)
  \/ OpenQuestionnaire

SpecQ == Init /\ [][NextQ]_vars

\* The results page in depth: sessionStorage as earlier visits may have left it
\* (a submission stores both keys, the matches being whatever body the server
\* sent, null included; a setItem that fails on the second key leaves only the
\* first; other pages of the origin may have stored either).
StoredProfiles ==
  {Obj([name |-> Str(<<"a">>), selfie |-> Null]),
   Obj([name |-> Str(<<"a">>), selfie |-> Str(<<"img">>)]),
   Obj([name |-> Str(<<"a">>), interests |-> Arr(<<Str(<<"a">>)>>)])}

StoredStates ==
  {[astronautMatches |-> m, userProfile |-> p, extractedProfile |-> Null] :
     m \in {Null, JSONstringify(Null)}
              \cup {JSONstringify(r) : r \in MatchResponses(MaxStoredAstronauts)},
     p \in {Null} \cup {JSONstringify(r) : r \in StoredProfiles}}

InitResults ==
  /\ DefaultsInit
  /\ storage \in StoredStates
  /\ sgProfile = Null
  /\ sgResult = Undef
  /\ ShNotRun

NextResults ==
  \/ Navigate("results")
  \/ ResultsNext

SpecResults == InitResults /\ [][NextResults]_vars

\* One load of the results page: the page is opened once and stays open until
\* the user leaves it; the timers startAnalysisProcess sets fire.
OpenResults == page = "home" /\ Navigate("results")

NextLoad ==
  \/ OpenResults
  \/ ResultsNext

SpecLoad ==
  /\ InitResults
  /\ [][NextLoad]_vars
  /\ WF_vars(BgTimerFires)
  /\ WF_vars(AnalysisTimerFires)

\* generateUserCareerSuggestions applied to every profile of SuggestProfiles.
InitSuggest ==
  /\ PagesInit
  /\ sgProfile \in SuggestProfiles
  /\ sgResult = Undef
  /\ ShNotRun

NextSuggest == Suggest

SpecSuggest == InitSuggest /\ [][NextSuggest]_vars

\* setup.sh run on every machine of ShEnvs.
InitSetup ==
  /\ PagesInit
  /\ sgProfile = Null
  /\ sgResult = Undef
  /\ shEnv \in ShEnvs
  /\ shPc = "python3"
  /\ shStatus = Running
  /\ shOut = <<>>
  /\ shRan = <<>>
  /\ shCwd = "project"

NextSetup ==
  \/ CheckPython
  \/ CheckNode
  \/ CheckNpm
  \/ \E outcome \in InstallOutcomes : PipInstall(outcome)
  \/ \E outcome \in InstallOutcomes : NpmInstall(outcome)
  \/ CheckKey
  \/ Complete

\* bash runs the next command of the script as soon as the last one returns.
SpecSetup == InitSetup /\ [][NextSetup]_vars /\ WF_vars(NextSetup)

\* ---------------------------------------------------------------- properties
\* A failed HTTP call: a non-ok response or a thrown exception.
Failures == {"nonok", "throw"}

C2_EveryFailureToasts ==
  [][\A outcome \in Failures :
       (\/ \E r \in FlowResponses : SubmitResponse(outcome, r) \/ FindResponse(outcome, r)
        \/ \E r \in ExtractedProfiles : ParseResponse(outcome, r)
        \/ BioResponse(outcome)
        \/ TimelineResponse(outcome, Null)
        \/ FaceSwapResponse(outcome))
       => toast' # NoToast]_vars

\* C2 (amended): every failed HTTP call of the questionnaire and of the upload
\* page is caught and reported by its toast; a failed call of the results page
\* (biography, career timeline, face swap) is caught and replaced by a fallback
\* value, and no toast is shown.
C2_FormFailuresToastResultsFallBack ==
  [][\A outcome \in Failures :
       /\ (\E r \in FlowResponses : SubmitResponse(outcome, r)) =>
            (toast' = ToastQFail /\ caught' = "similar_astronauts")
       /\ (\E r \in FlowResponses : FindResponse(outcome, r)) =>
            (toast' = ToastFindFail /\ caught' = "similar_astronauts")
       /\ (\E r \in ExtractedProfiles : ParseResponse(outcome, r)) =>
            (toast' = ToastParseFail /\ caught' = "parse_resume")
       /\ BioResponse(outcome) =>
            /\ toast' = NoToast
            /\ astronauts'[bioPc].biography \in
                 {Str(<<"A distinguished astronaut">>),
                  Str(<<"An accomplished astronaut with extensive space experience.">>)}
       /\ TimelineResponse(outcome, Null) =>
            /\ toast' = NoToast
            /\ astronauts'[tlPc].careerTimeline \in {Arr(fallbacks), Arr(catchTimeline)}
       /\ FaceSwapResponse(outcome) =>
            (toast' = NoToast /\ faceSwapImage' = Fallback)]_vars

\* A biography request of the results page has failed and no toast is shown.
C2_Witness ==
  /\ page = "results"
  /\ toast = NoToast
  /\ \E i \in 1..Len(astronauts) :
       astronauts[i].biography = Str(<<"A distinguished astronaut">>)

\* C3: when the similar_astronauts request fails in onSubmit (either
\* questionnaire) or in findMatches, sessionStorage is unchanged, the page is not
\* left, and the busy flag is false afterwards with no request in flight.
C3_FailureKeepsStorageAndFreesForm ==
  [][\A outcome \in Failures, r \in FlowResponses :
       /\ SubmitResponse(outcome, r) =>
            /\ storage' = storage
            /\ page' = page /\ page' # "results"
            /\ ~isSubmitting' /\ qReq' = Null
       /\ FindResponse(outcome, r) =>
            /\ storage' = storage
            /\ page' = page /\ page' # "results"
            /\ ~isProcessing' /\ uReq' = NoReq]_vars

\* findMatches has failed on the upload page and can be retried.
C3_Witness ==
  /\ page = "upload"
  /\ caught = "similar_astronauts"
  /\ toast = ToastFindFail
  /\ ~isProcessing
  /\ extractedData # Null
  /\ storage.astronautMatches = Null

\* The state variables the pending asynchronous operations of the results page
\* write when their response arrives: the biography loop setBiographiesGenerated,
\* the timeline loop (the background task) setMatches, each processFaceSwap the
\* effect started setFaceSwapImage.
WrittenVariables == {"biographiesGenerated", "matches", "faceSwapImage"}

PendingWriters(v) ==
  (IF v = "biographiesGenerated" /\ bioPc \in 1..Len(astronauts) THEN 1 ELSE 0)
  + (IF v = "matches" /\ tlPc \in 1..Len(astronauts) THEN 1 ELSE 0)
  + (IF v = "faceSwapImage" THEN fsPending ELSE 0)

\* C4 (as stated): on the results page no two asynchronous operations pending at
\* the same time write the same state variable.
C4_NoSharedWrites ==
  page = "results" => \A v \in WrittenVariables : PendingWriters(v) <= 1

\* C5: the results page sets matches and userProfile and starts the analysis
\* only if both keys are in sessionStorage at mount; if either is missing it
\* ends with isLoading false, matches and userProfile null, renders 'No Results
\* Found', never shows the analysis screen and issues no request.
C5_LoadsOnlyWithBothKeys ==
  page = "results" =>
    /\ (matches # Null \/ userProfile # Null \/ isAnalyzing \/ analysisTimer \/ bgTimer
          \/ bioPc # 0 \/ tlPc # 0 \/ fsPending # 0 \/ requested # {})
         => (storage.astronautMatches # Null /\ storage.userProfile # Null)
    /\ (storage.astronautMatches = Null \/ storage.userProfile = Null)
         => /\ ~isLoading /\ matches = Null /\ userProfile = Null
            /\ NoResultsFound /\ ~MainRender
            /\ ~isAnalyzing /\ ~starsVisible /\ astronautCount = 0
            /\ requested = {}

\* The results page opened with the matches stored and the profile missing.
C5_Witness ==
  /\ page = "results"
  /\ storage.astronautMatches # Null
  /\ storage.userProfile = Null
  /\ NoResultsFound

\* C6: in the 7-step questionnaire nextStep (the Continue button, the Enter
\* key) advances from step k in 1..6 to k + 1 only if the field of step k is
\* non-empty after trimming; otherwise currentStep is unchanged and the toast
\* 'Please fill in the required field before continuing' is shown.
C6_NextStepValidates ==
  [][((Continue \/ EnterKey) /\ currentStep \in 1..6) =>
       LET v == form[Fields[currentStep]]
           filled == v # Undef /\ Trim(v.s) # <<>>
       IN  IF filled
           THEN currentStep' = currentStep + 1 /\ toast' = NoToast
           ELSE /\ currentStep' = currentStep
                /\ toast' = "Please fill in the required field before continuing"]_vars

\* Continue was refused on a first name of blanks only.
C6_Witness ==
  /\ page = "questionnaire"
  /\ currentStep = 1
  /\ form.firstName = Str(<<" ">>)
  /\ toast = ToastRequired

ResumeTypes ==
  {"application/pdf", "application/msword",
   "application/vnd.openxmlformats-officedocument.wordprocessingml.document", "text/plain"}
ResumeExts == {".pdf", ".doc", ".docx", ".txt"}
IsResume(file) ==
  /\ file.type \in ResumeTypes \/ file.ext \in ResumeExts
  /\ file.size <= 5 * 1024 * 1024
Resumes(files) == {i \in 1..Len(files) : IsResume(files[i])}

\* C8: the upload page accepts at most one file, only a PDF, DOC, DOCX or TXT
\* of at most 5 MB; a rejected drop leaves uploadedFile and extractedData
\* unchanged.
C8_UploadAcceptsOneResume ==
  /\ [](uploadedFile # Null => IsResume(uploadedFile))
  /\ [][(page = "upload" /\ uploadedFile = Null) =>
          \A files \in Drops : Drop(files) =>
            IF Cardinality(Resumes(files)) = 1
            THEN /\ uploadedFile' = files[CHOOSE i \in Resumes(files) : TRUE]
                 /\ extractedData' = extractedData
            ELSE UNCHANGED <<uploadedFile, extractedData>>]_vars

\* A file of exactly 5 MB was accepted.
C8_Witness ==
  /\ page = "upload"
  /\ uploadedFile # Null
  /\ uploadedFile.size = 5 * 1024 * 1024
  /\ toast = ToastUploaded

\* C9: once generateCareerTimelines has handled an astronaut (and so after it
\* finishes, all of them), the astronaut's careerTimeline has exactly 4
\* entries, whatever the outcome of the request.
C9_TimelineHasFourEntries ==
  page = "results" =>
    \A i \in 1..Len(astronauts) :
      i < tlPc => /\ astronauts[i].careerTimeline.t = "arr"
                  /\ Len(astronauts[i].careerTimeline.a) = 4

\* generateCareerTimelines has finished for two astronauts: one request threw,
\* one answered a timeline with an empty entry among three.
C9_Witness ==
  /\ page = "results"
  /\ Len(astronauts) = 2
  /\ tlPc = 3
  /\ astronauts[1].careerTimeline = Arr(catchTimeline)
  /\ astronauts[2].careerTimeline =
       Arr(<<Str(<<"t">>), Str(<<"t">>), fallbacks[3], fallbacks[4]>>)

\* C10: generateUserCareerSuggestions returns exactly 4 suggestions for every
\* profile: no interests, undefined interests, all three recognised interests.
C10_FourSuggestions ==
  sgResult # Undef => (sgResult.t = "arr" /\ Len(sgResult.a) = 4)

\* The suggestions of a profile interested in Engineering, Medicine and Physics.
C10_Witness ==
  /\ sgResult # Undef
  /\ Len(sgResult.a) = 4
  /\ Get(sgProfile, "interests").t = "arr"
  /\ LET interests == Get(sgProfile, "interests").a
     IN  /\ includes(interests, "Engineering")
         /\ includes(interests, "Medicine")
         /\ includes(interests, "Physics")

\* C11 (as stated): slide 1 shows the top 2 matches: for every stored result
\* the number of astronaut cards of slide 1 is at most 2, and it equals the
\* number the analysis screen announces whenever the result holds at least 2
\* astronauts.
C11_SlideOneShowsTwo ==
  MainRender =>
    /\ Slide1Cards <= 2
    /\ matches.o.top_astronauts >= 2 => Slide1Cards = announcedMatches

\* C12: once the analysis process has started, the analysis screen eventually
\* closes; isAnalyzing becomes false only when the 8 s timer fires, with
\* currentSlide 0 at that moment; and isAnalyzing never becomes true again
\* during that page load.
C12_AnalysisCloses ==
  /\ (page = "results" /\ isAnalyzing) ~> (page = "results" /\ ~isAnalyzing)
  /\ [][(page = "results" /\ isAnalyzing /\ ~isAnalyzing') =>
          (analysisTimer /\ ~analysisTimer' /\ page' = "results" /\ currentSlide' = 0
             /\ MainRender')]_vars
  /\ [][(page = "results" /\ ~isAnalyzing) => ~isAnalyzing']_vars

\* The analysis screen has closed on the first slide.
C12_Witness ==
  /\ page = "results"
  /\ MainRender
  /\ ~isAnalyzing /\ ~analysisTimer
  /\ astronautCount = CounterTarget
  /\ currentSlide = 0

Echoed(msg) == \E i \in DOMAIN shOut : shOut[i] = msg

PrerequisiteMissing == shEnv # Null /\ shEnv.installed # Prerequisites

KeyUnsetOnly == shEnv # Null /\ shEnv.installed = Prerequisites /\ shEnv.key = Undef

\* C13: when python3, node or npm is missing, setup.sh runs no install command
\* and ends in exit 1, never reaching the installs; when all three are there and
\* OPENAI_API_KEY is unset, it echoes the warning, never exits with 1 and goes
\* on to echo "Setup complete!".
C13_SetupChecksPrerequisites ==
  /\ [](PrerequisiteMissing =>
          /\ shRan = <<>>
          /\ shPc \in {"python3", "node", "npm", "exit"}
          /\ ~Echoed(MsgPassed) /\ ~Echoed(MsgComplete))
  /\ PrerequisiteMissing ~> (shPc = "exit" /\ shStatus = <<1>>)
  /\ [](KeyUnsetOnly => shStatus = Running)
  /\ [](KeyUnsetOnly /\ shPc \in {"complete", "done"} => Echoed(MsgNoKey))
  /\ KeyUnsetOnly ~> (shPc = "done" /\ Echoed(MsgNoKey) /\ Echoed(MsgComplete) /\ Len(shRan) = 2)

C13_Witness ==
  /\ KeyUnsetOnly
  /\ shPc = "done"
  /\ Echoed(MsgNoKey)
  /\ Echoed(MsgComplete)
  /\ shRan = <<<<"pip install -r requirements.txt", "fail">>, <<"npm install", "ok">>>>

\* C14: in the 7-step questionnaire a submit of the form at steps 1..5 leaves
\* isSubmitting, the request and sessionStorage as they were, and a
\* similar_astronauts request is issued only by a submit at a step
\* >= totalSteps - 1, which also sets isSubmitting.
C14_SubmitOnlyOnLastSteps ==
  [][/\ (FormSubmit /\ currentStep \in 1..5) => UNCHANGED <<isSubmitting, qReq, storage>>
     /\ (page' = "questionnaire" /\ qReq' # Null /\ qReq' # qReq) =>
          /\ FormSubmit
          /\ currentStep >= totalSteps - 1
          /\ isSubmitting'
          /\ storage' = storage]_vars

C14_Witness ==
  /\ page = "questionnaire"
  /\ currentStep = totalSteps - 1
  /\ isSubmitting
  /\ qReq # Null
  /\ storage = EmptyStorage

\* C15 (as stated): in both questionnaires prevStep is a no-op at step 1 and
\* otherwise takes one step back, and nextStep is a no-op at totalSteps and
\* otherwise takes one step forward, whatever the form holds.
C15_StepsMoveByOne ==
  /\ \A step \in 1..totalSteps :
       /\ prevStep(step) = IF step = 1 THEN step ELSE step - 1
       /\ nextStep(step, form)[1] = IF step = totalSteps THEN step ELSE step + 1
  /\ \A step \in 1..totalStepsOld :
       /\ prevStep(step) = IF step = 1 THEN step ELSE step - 1
       /\ nextStepOld(step) = IF step = totalStepsOld THEN step ELSE step + 1

\* C15 (amended): prevStep never goes below 1 and nextStep never above
\* totalSteps (7 new, 6 old); each is a no-op at its bound; away from it
\* prevStep and the old nextStep move by exactly one, and the 7-step nextStep
\* moves forward by one when the step's field is valid and stays, with a toast,
\* when it is blank. The buttons and the Enter key move currentStep accordingly.
C15_StepsStayInBounds ==
  /\ [](/\ \A step \in 1..totalSteps :
           /\ prevStep(step) = (IF step = 1 THEN step ELSE step - 1)
           /\ nextStep(step, form)[1] =
                (IF step < totalSteps /\ isValid(step, form) THEN step + 1 ELSE step)
           /\ nextStep(step, form)[2] = (step < totalSteps /\ ~isValid(step, form))
        /\ \A step \in 1..totalStepsOld :
           /\ prevStep(step) = (IF step = 1 THEN step ELSE step - 1)
           /\ nextStepOld(step) = (IF step = totalStepsOld THEN step ELSE step + 1))
  /\ [][/\ (Continue \/ EnterKey) =>
           /\ currentStep' = (IF isValid(currentStep, form) THEN currentStep + 1 ELSE currentStep)
           /\ currentStep' \in 1..totalSteps
        /\ Previous => (currentStep' = currentStep - 1 /\ currentStep' >= 1)
        /\ OldNext => (currentStep' = currentStep + 1 /\ currentStep' <= totalStepsOld)
        /\ OldPrevious => (currentStep' = currentStep - 1 /\ currentStep' >= 1)]_vars

C15_Witness ==
  /\ page = "questionnaire"
  /\ currentStep = totalSteps
  /\ nextStep(currentStep, form) = <<totalSteps, FALSE>>
  /\ prevStep(currentStep) = totalSteps - 1

\* C16 (as stated): on the 7-step questionnaire currentStep stays within
\* 1..totalSteps whatever the sequence of Continue, Enter, Previous and
\* 'Skip for now', so renderStep renders a step and the progress bar is at
\* most 100% wide.
C16_StepInRange ==
  page = "questionnaire" =>
    /\ 1 <= currentStep
    /\ currentStep <= totalSteps
    /\ renderStep(currentStep) # Null
    /\ progressWidth(currentStep) <= 100

====
